---------------------------- MODULE Spec2Model ----------------------------
(***************************************************************************)
(* A model of stashr: the in-memory key/value store with TTL expiry of     *)
(* src/store/store.go (Store, entry, the gcLoop sweeper) and the process   *)
(* wiring of src/cmd/stashr/main.go.                                       *)
(*                                                                         *)
(* Time is a discrete clock `now`.  The zero time.Time (ZeroTime) is the   *)
(* "no expiry" sentinel; the clock starts after it.  Entries live in a     *)
(* heap indexed by allocation number, the map holds pointers into it, as   *)
(* data map[string]*entry does.  sync.RWMutex is the pair readers/writer.  *)
(* Every call is split at the points where another goroutine can run:      *)
(* the lock operations and the reads of the clock.  A call starts with its *)
(* first such step and returns with its last: ret shows the call that      *)
(* returned in the last step, for that one state.                          *)
(*                                                                         *)
(* The specifications share the actions:                                   *)
(*   Spec          Get, Set, Delete, List by two clients on two keys, with *)
(*                 the sweeper                                             *)
(*   SpecKey       Get, Set, Delete by two clients on one key, sweeper,    *)
(*                 with the linearizations of the history followed in lin  *)
(*   SpecStop      one client, the sweeper, and Stop called any number of  *)
(*                 times; SpecStopLive is SpecStop with fairness           *)
(*   SpecMain      func main with its server goroutines and the sweeper    *)
(*   SpecLive      a reading and a writing client and the sweeper, with    *)
(*                 fairness                                                *)
(*   SpecFront     one client that sets a key through the HTTP and gRPC    *)
(*                 front ends of src/server                                *)
(* The variables marked history record facts about the calls made so far;  *)
(* no guard and no program variable depends on them.                       *)
(***************************************************************************)
EXTENDS Integers, FiniteSets, Sequences, TLC

\* ------------------------------------------------------------- bounds
\* The clock runs from 1 to MaxTime.
MaxTime == 3
\* Set is called with a ttl in 0..MaxTTL.
MaxTTL == 1
\* At most MaxSets entries are ever allocated (calls of Set).
MaxSets == 2

\* time.Time{}: "zero value means no expiry".
ZeroTime == 0

Keys == {"a", "b"}
Values == {"v1", "v2"}
Clients == {"c1", "c2"}
TTLs == 0..MaxTTL
Ids == 1..MaxSets

\* The sweeper goroutine's name as a holder of the lock.
GC == "gc"
None == "none"
\* The mark of a returned Delete in the history variable last.
Deleted == MaxSets + 1

VARIABLES
    data,       \* Store.data: key -> pointer (0: the key is absent)
    heap,       \* the entry objects: pointer -> [value, expiresAt]
    nextId,     \* the number of entries allocated so far
    now,        \* time.Now()
    readers,    \* Store.mu: the goroutines holding it in read mode
    writer,     \* Store.mu: the goroutine holding it in write mode, or None
    pc,         \* each client's position in its call
    key,        \* each client's key argument
    eid,        \* each client's local e (a pointer; 0: none)
    seen,       \* List: the keys the range loop has visited
    keys,       \* List: the slice built so far (as a set)
    gcPc,       \* the sweeper goroutine's position
    sweepNow,   \* sweep's local now
    stopGC,     \* Store.stopGC: "open" or "closed"
    panicked,   \* a goroutine panicked: the process is gone
    ret,        \* the call that returned in the last step, with its result
                \* and the history facts of the call (NoRet: none did);
                \* after HandleSet, the request and the ttl made of it
    gLast,      \* history: last[key] when the client's Get was called
    t0,         \* history: the clock when the client's List was called,
                \* and when the sweep took the lock
    last,       \* history: per key, the Set call (its number) or the Delete
                \* (Deleted) that returned last, when no other Set or Delete
                \* on the key was in flight then or has been called since
                \* (0 otherwise)
    log,        \* history: the arguments of each Set call
    main,       \* func main: its position, flags, servers and exit
    lin         \* history: the linearizations of the calls on LinKey so far
                \* that agree with every result returned (see LinCall)

vars == <<data, heap, nextId, now, readers, writer, pc, key, eid, seen, keys,
          gcPc, sweepNow, stopGC, panicked, ret, main,
          gLast, t0, last, log, lin>>

storeVars == <<data, heap, nextId>>
lockVars == <<readers, writer>>
gcVars == <<gcPc, sweepNow>>
histVars == <<gLast, t0, last, log>>

NilEntry == [value |-> "", expiresAt |-> -1]
NilLog == [key |-> "", value |-> "", ttl |-> 0, expiresAt |-> -1, prev |-> 0]
NoRet == [op |-> "none"]

\* ------------------------------------------------------------- entry

\* entry.expired with Before's complement in place of After: expired already at
\* the instant expiresAt.
expiredAtOrAfter(e, t) == e.expiresAt # ZeroTime /\ t >= e.expiresAt

\* entry.expired with time.Now() = t: !e.expiresAt.IsZero() && t.After(e.expiresAt)
expired(e, t) == e.expiresAt # ZeroTime /\ t > e.expiresAt

\* sweep's test without the comparison of times: any entry with a ttl.
sweepExpiredAnyTTL(e, t) == e.expiresAt # ZeroTime

\* sweep's test with Before in place of After.
sweepExpiredBefore(e, t) == e.expiresAt # ZeroTime /\ t < e.expiresAt

\* sweep's own test, against its local now.
sweepExpired(e, t) == e.expiresAt # ZeroTime /\ t > e.expiresAt

\* The entry Set builds: expiresAt stays zero unless ttl > 0.
newEntry(value, ttl, t) ==
    [value |-> value, expiresAt |-> IF ttl > 0 THEN t + ttl ELSE ZeroTime]

\* ------------------------------------------------------------- history
\* The sequential store the calls on one key are measured against: the key
\* holds a Set call's entry (its number) or nothing (0); Get and Delete find
\* the entry if it is there and not expired at the time they take effect.

\* The key whose calls lin follows.
LinKey == "a"

NoCall == [s |-> "none", found |-> FALSE, value |-> ""]
Todo == [s |-> "todo", found |-> FALSE, value |-> ""]
Done(found, value) == [s |-> "done", found |-> found, value |-> value]

\* The call of client p, from its position pcs[p]: its kind.
CallKind(pcs, p) ==
    CASE pcs[p] \in {"set_called", "set_locked"} -> "set"
      [] pcs[p] \in {"get_rlocked", "get_upgrade", "get_locked"} -> "get"
      [] pcs[p] = "del_locked" -> "delete"
      [] OTHER -> "none"

\* Configuration c after p's pending call takes effect at time t.
LinApply(c, p, pcs, eids, t) ==
    LET live == c.st # 0 /\ ~(log[c.st].expiresAt # ZeroTime /\ t > log[c.st].expiresAt)
        kind == CallKind(pcs, p)
    IN  CASE kind = "set" ->
               [st |-> eids[p], r |-> [c.r EXCEPT ![p] = Done(FALSE, "")]]
          [] kind = "get" ->
               [st |-> IF live THEN c.st ELSE 0,
                r |-> [c.r EXCEPT ![p] =
                          IF live THEN Done(TRUE, log[c.st].value) ELSE Done(FALSE, "")]]
          [] kind = "delete" ->
               [st |-> 0, r |-> [c.r EXCEPT ![p] = Done(live, "")]]
          [] OTHER -> c

\* Every configuration reachable from S by letting pending calls take effect
\* now, in any order.
RECURSIVE LinClose(_, _, _, _)
LinClose(S, pcs, eids, t) ==
    LET step == S \cup UNION {{LinApply(c, p, pcs, eids, t) :
                                  p \in {q \in Clients : c.r[q] = Todo}} : c \in S}
    IN  IF step = S THEN S ELSE LinClose(step, pcs, eids, t)

\* Client p calls an operation on key k (its new position is in pcs).
LinCall(p, k, pcs, eids) ==
    IF k = LinKey
    THEN LinClose({[c EXCEPT !.r[p] = Todo] : c \in lin}, pcs, eids, now)
    ELSE lin

\* A call returns r (NoRet: no call returns): the configurations in which it
\* has taken effect with that result stay.
LinReturn(r) ==
    IF r.op \in {"get", "set", "delete"} /\ r.key = LinKey
    THEN {[c EXCEPT !.r[r.by] = NoCall] :
            c \in {d \in lin : d.r[r.by] =
                     CASE r.op = "get" -> Done(r.found, r.value)
                       [] r.op = "delete" -> Done(r.deleted, "")
                       [] OTHER -> Done(FALSE, "")}}
    ELSE lin

\* ------------------------------------------------------------- RWMutex

\* Lock that waits for the writer only, not for the readers to leave.
CanLockNoReaders == writer = None

\* sync.RWMutex: RLock goes on when no writer holds the lock, Lock when no
\* writer and no reader does.
CanRLock == writer = None
CanLock == writer = None /\ readers = {}

\* A Set or Delete on key k has been called and has not returned.
Mutating(k, others) ==
    \E q \in others : key[q] = k /\ pc[q] \in {"set_called", "set_locked", "del_locked"}

\* The value of last[k] when p's Set or Delete on k returns: the call (mark),
\* unless another Set or Delete on k is in flight.  Only LinKey is followed.
Settled(p, k, mark) ==
    IF k = LinKey /\ ~Mutating(k, Clients \ {p}) THEN mark ELSE 0

\* The process is alive: no goroutine has panicked and main has not exited.
Running == ~panicked /\ main.exit = "no"

\* ------------------------------------------------------------- New

\* The state New returns, with the sweeper goroutine started.
InitStore ==
    /\ data = [k \in Keys |-> 0]
    /\ heap = [i \in Ids |-> NilEntry]
    /\ nextId = 0
    /\ now = 1
    /\ readers = {}
    /\ writer = None
    /\ pc = [p \in Clients |-> "idle"]
    /\ key = [p \in Clients |-> ""]
    /\ eid = [p \in Clients |-> 0]
    /\ seen = [p \in Clients |-> {}]
    /\ keys = [p \in Clients |-> {}]
    /\ gcPc = "wait"
    /\ sweepNow = 0
    /\ stopGC = "open"
    /\ panicked = FALSE
    /\ ret = NoRet
    /\ gLast = [p \in Clients |-> 0]
    /\ t0 = [p \in Clients \cup {GC} |-> 0]
    /\ last = [k \in Keys |-> 0]
    /\ log = [i \in Ids |-> NilLog]

\* No func main: the store is driven through its methods.
NoMain == [pc |-> "none", disableHttp |-> FALSE, disablegRPC |-> FALSE,
           http |-> "off", grpc |-> "off", exit |-> "no"]

LinInit == {[st |-> 0, r |-> [p \in Clients |-> NoCall]]}

\* lin = {} stays empty: the linearizations are followed under SpecKey only.
Init == InitStore /\ main = NoMain /\ lin = {}

\* ------------------------------------------------------------- clock

Tick ==
    /\ Running
    /\ now < MaxTime
    /\ now' = now + 1
    /\ UNCHANGED <<storeVars, lockVars, pc, key, eid, seen, keys, gcVars,
                   stopGC, panicked, histVars>>
    /\ ret' = NoRet
    /\ lin' = LinClose(lin, pc, eid, now')
    /\ UNCHANGED main

\* ------------------------------------------------------------- Set

\* Set, lines 88-91: the entry is built, and the clock read, before the lock.
SetCall(p, k, v, ttl) ==
    /\ Running
    /\ pc[p] = "idle"
    /\ nextId < MaxSets
    /\ nextId' = nextId + 1
    /\ heap' = [heap EXCEPT ![nextId + 1] = newEntry(v, ttl, now)]
    /\ log' = [log EXCEPT ![nextId + 1] =
                  [key |-> k, value |-> v, ttl |-> ttl,
                   expiresAt |-> newEntry(v, ttl, now).expiresAt,
                   prev |-> last[k]]]
    /\ last' = [last EXCEPT ![k] = 0]
    /\ pc' = [pc EXCEPT ![p] = "set_called"]
    /\ key' = [key EXCEPT ![p] = k]
    /\ eid' = [eid EXCEPT ![p] = nextId + 1]
    /\ ret' = NoRet
    /\ UNCHANGED <<data, now, lockVars, seen, keys, gcVars, stopGC, panicked, gLast, t0>>
    /\ lin' = LinCall(p, k, pc', eid')
    /\ UNCHANGED main

\* s.mu.Lock()
SetLock(p) ==
    /\ Running
    /\ pc[p] = "set_called"
    /\ CanLock
    /\ writer' = p
    /\ pc' = [pc EXCEPT ![p] = "set_locked"]
    /\ UNCHANGED <<storeVars, now, readers, key, eid, seen, keys, gcVars,
                   stopGC, panicked, histVars>>
    /\ ret' = NoRet
    /\ UNCHANGED <<main, lin>>

\* Set overwriting in place: the entry the key holds gets the new value and
\* keeps its expiresAt.
SetStoreValueOnly(p) ==
    /\ Running
    /\ pc[p] = "set_locked"
    /\ IF data[key[p]] # 0
       THEN /\ heap' = [heap EXCEPT ![data[key[p]]].value = heap[eid[p]].value]
            /\ UNCHANGED data
       ELSE /\ data' = [data EXCEPT ![key[p]] = eid[p]]
            /\ UNCHANGED heap
    /\ writer' = None
    /\ last' = [last EXCEPT ![key[p]] = Settled(p, key[p], eid[p])]
    /\ ret' = [op |-> "set", by |-> p, key |-> key[p]]
    /\ pc' = [pc EXCEPT ![p] = "idle"]
    /\ key' = [key EXCEPT ![p] = ""]
    /\ eid' = [eid EXCEPT ![p] = 0]
    /\ UNCHANGED <<nextId, now, readers, seen, keys, gcVars, stopGC,
                   panicked, gLast, t0, log, main>>
    /\ lin' = LinReturn(ret')

\* Set storing the entry under a key of its own choosing, whatever key it was
\* given.
SetStoreFixedKey(p) ==
    /\ Running
    /\ pc[p] = "set_locked"
    /\ data' = [data EXCEPT ![CHOOSE k \in Keys : k # key[p]] = eid[p]]
    /\ writer' = None
    /\ last' = [last EXCEPT ![key[p]] = Settled(p, key[p], eid[p])]
    /\ ret' = [op |-> "set", by |-> p, key |-> key[p]]
    /\ pc' = [pc EXCEPT ![p] = "idle"]
    /\ key' = [key EXCEPT ![p] = ""]
    /\ eid' = [eid EXCEPT ![p] = 0]
    /\ UNCHANGED <<heap, nextId, now, readers, seen, keys, gcVars, stopGC,
                   panicked, gLast, t0, log>>
    /\ lin' = LinReturn(ret')
    /\ UNCHANGED main

\* s.data[key] = e; s.mu.Unlock(); return
SetStore(p) ==
    /\ Running
    /\ pc[p] = "set_locked"
    /\ data' = [data EXCEPT ![key[p]] = eid[p]]
    /\ writer' = None
    /\ last' = [last EXCEPT ![key[p]] = Settled(p, key[p], eid[p])]
    /\ ret' = [op |-> "set", by |-> p, key |-> key[p]]
    /\ pc' = [pc EXCEPT ![p] = "idle"]
    /\ key' = [key EXCEPT ![p] = ""]
    /\ eid' = [eid EXCEPT ![p] = 0]
    /\ UNCHANGED <<heap, nextId, now, readers, seen, keys, gcVars, stopGC,
                   panicked, gLast, t0, log>>
    /\ lin' = LinReturn(ret')
    /\ UNCHANGED main

\* ------------------------------------------------------------- Get

\* What Get returns, with the history facts of the call: exp is the expiresAt
\* it tested, last the Set or Delete this Get was called after and that no Set
\* or Delete has followed up to the return (0: none), at the clock it read.
GetRes(p, value, found, exp) ==
    [op |-> "get", by |-> p, key |-> key[p], value |-> value, found |-> found,
     exp |-> exp,
     last |-> IF gLast[p] # 0 /\ last[key[p]] = gLast[p] THEN gLast[p] ELSE 0,
     at |-> now]

\* s.mu.RLock()
GetRLock(p, k) ==
    /\ Running
    /\ pc[p] = "idle"
    /\ CanRLock
    /\ readers' = readers \cup {p}
    /\ pc' = [pc EXCEPT ![p] = "get_rlocked"]
    /\ key' = [key EXCEPT ![p] = k]
    /\ gLast' = [gLast EXCEPT ![p] = last[k]]
    /\ ret' = NoRet
    /\ UNCHANGED <<storeVars, now, writer, eid, seen, keys, gcVars, stopGC,
                   panicked, t0, last, log>>
    /\ lin' = LinCall(p, k, pc', eid)
    /\ UNCHANGED main

\* Get returning early for a key that is not there, without the RUnlock.
GetCheckNoRUnlock(p) ==
    /\ Running
    /\ pc[p] = "get_rlocked"
    /\ readers' = IF data[key[p]] = 0 THEN readers ELSE readers \ {p}
    /\ IF data[key[p]] = 0
       THEN /\ ret' = GetRes(p, "", FALSE, ZeroTime)
            /\ pc' = [pc EXCEPT ![p] = "idle"]
            /\ key' = [key EXCEPT ![p] = ""]
            /\ gLast' = [gLast EXCEPT ![p] = 0]
            /\ UNCHANGED eid
       ELSE IF expired(heap[data[key[p]]], now)
       THEN /\ pc' = [pc EXCEPT ![p] = "get_upgrade"]
            /\ eid' = [eid EXCEPT ![p] = data[key[p]]]
            /\ ret' = NoRet /\ UNCHANGED <<key, gLast>>
       ELSE /\ ret' = GetRes(p, heap[data[key[p]]].value, TRUE,
                          heap[data[key[p]]].expiresAt)
            /\ pc' = [pc EXCEPT ![p] = "idle"]
            /\ key' = [key EXCEPT ![p] = ""]
            /\ gLast' = [gLast EXCEPT ![p] = 0]
            /\ UNCHANGED eid
    /\ UNCHANGED <<storeVars, now, writer, seen, keys, gcVars, stopGC,
                   panicked, t0, last, log>>
    /\ lin' = LinReturn(ret')
    /\ UNCHANGED main

\* e, ok := s.data[key]; the three ways on: not there, expired, there.
GetCheck(p) ==
    /\ Running
    /\ pc[p] = "get_rlocked"
    /\ readers' = readers \ {p}
    /\ IF data[key[p]] = 0
       THEN /\ ret' = GetRes(p, "", FALSE, ZeroTime)
            /\ pc' = [pc EXCEPT ![p] = "idle"]
            /\ key' = [key EXCEPT ![p] = ""]
            /\ gLast' = [gLast EXCEPT ![p] = 0]
            /\ UNCHANGED eid
       ELSE IF expired(heap[data[key[p]]], now)
       THEN /\ pc' = [pc EXCEPT ![p] = "get_upgrade"]
            /\ eid' = [eid EXCEPT ![p] = data[key[p]]]
            /\ ret' = NoRet /\ UNCHANGED <<key, gLast>>
       ELSE /\ ret' = GetRes(p, heap[data[key[p]]].value, TRUE,
                          heap[data[key[p]]].expiresAt)
            /\ pc' = [pc EXCEPT ![p] = "idle"]
            /\ key' = [key EXCEPT ![p] = ""]
            /\ gLast' = [gLast EXCEPT ![p] = 0]
            /\ UNCHANGED eid
    /\ UNCHANGED <<storeVars, now, writer, seen, keys, gcVars, stopGC,
                   panicked, t0, last, log>>
    /\ lin' = LinReturn(ret')
    /\ UNCHANGED main

\* "Upgrade to write lock to delete": s.mu.Lock(), after the RUnlock.
GetLock(p) ==
    /\ Running
    /\ pc[p] = "get_upgrade"
    /\ CanLock
    /\ writer' = p
    /\ pc' = [pc EXCEPT ![p] = "get_locked"]
    /\ UNCHANGED <<storeVars, now, readers, key, eid, seen, keys, gcVars,
                   stopGC, panicked, histVars>>
    /\ ret' = NoRet
    /\ UNCHANGED <<main, lin>>

\* delete(s.data, key); s.mu.Unlock(); return "", false
GetDelete(p) ==
    /\ Running
    /\ pc[p] = "get_locked"
    /\ data' = [data EXCEPT ![key[p]] = 0]
    /\ writer' = None
    /\ ret' = GetRes(p, "", FALSE, heap[eid[p]].expiresAt)
    /\ pc' = [pc EXCEPT ![p] = "idle"]
    /\ key' = [key EXCEPT ![p] = ""]
    /\ eid' = [eid EXCEPT ![p] = 0]
    /\ gLast' = [gLast EXCEPT ![p] = 0]
    /\ UNCHANGED <<heap, nextId, now, readers, seen, keys, gcVars, stopGC,
                   panicked, t0, last, log>>
    /\ lin' = LinReturn(ret')
    /\ UNCHANGED main

\* ------------------------------------------------------------- Delete

\* s.mu.Lock()
DeleteLock(p, k) ==
    /\ Running
    /\ pc[p] = "idle"
    /\ CanLock
    /\ writer' = p
    /\ pc' = [pc EXCEPT ![p] = "del_locked"]
    /\ key' = [key EXCEPT ![p] = k]
    /\ last' = [last EXCEPT ![k] = 0]
    /\ ret' = NoRet
    /\ UNCHANGED <<storeVars, now, readers, eid, seen, keys, gcVars, stopGC,
                   panicked, gLast, t0, log>>
    /\ lin' = LinCall(p, k, pc', eid)
    /\ UNCHANGED main

\* Delete's result without the e.expired() test.
deleteFoundPresent(k) == data[k] # 0

\* Delete's result: true exactly when the key is there and not expired.
deleteFound(k) == data[k] # 0 /\ ~expired(heap[data[k]], now)

\* e, ok := s.data[key]; delete on both branches; the deferred Unlock.
DeleteBody(p) ==
    /\ Running
    /\ pc[p] = "del_locked"
    /\ data' = [data EXCEPT ![key[p]] = 0]
    /\ writer' = None
    /\ ret' = [op |-> "delete", by |-> p, key |-> key[p],
               deleted |-> deleteFound(key[p]), was |-> data[key[p]], at |-> now]
    /\ last' = [last EXCEPT ![key[p]] = Settled(p, key[p], Deleted)]
    /\ pc' = [pc EXCEPT ![p] = "idle"]
    /\ key' = [key EXCEPT ![p] = ""]
    /\ UNCHANGED <<heap, nextId, now, readers, eid, seen, keys, gcVars, stopGC,
                   panicked, gLast, t0, log>>
    /\ lin' = LinReturn(ret')
    /\ UNCHANGED main

\* ------------------------------------------------------------- List

\* s.mu.RLock(); keys := make([]string, 0, len(s.data))
ListRLock(p) ==
    /\ Running
    /\ pc[p] = "idle"
    /\ CanRLock
    /\ readers' = readers \cup {p}
    /\ pc' = [pc EXCEPT ![p] = "list_rlocked"]
    /\ t0' = [t0 EXCEPT ![p] = now]
    /\ ret' = NoRet
    /\ UNCHANGED <<storeVars, now, writer, key, eid, seen, keys, gcVars, stopGC,
                   panicked, gLast, last, log>>
    /\ UNCHANGED <<main, lin>>

\* One round of the range loop, in any order of the keys: e.expired() reads
\* the clock again for each entry.
ListVisit(p, k) ==
    /\ Running
    /\ pc[p] = "list_rlocked"
    /\ data[k] # 0
    /\ k \notin seen[p]
    /\ seen' = [seen EXCEPT ![p] = @ \cup {k}]
    /\ keys' = [keys EXCEPT ![p] =
                   IF expired(heap[data[k]], now) THEN @ ELSE @ \cup {k}]
    /\ ret' = NoRet
    /\ UNCHANGED <<storeVars, now, lockVars, pc, key, eid, gcVars, stopGC,
                   panicked, histVars>>
    /\ UNCHANGED <<main, lin>>

\* The loop is over: return keys, and the deferred RUnlock.
ListReturn(p) ==
    /\ Running
    /\ pc[p] = "list_rlocked"
    /\ \A k \in Keys : data[k] # 0 => k \in seen[p]
    /\ readers' = readers \ {p}
    /\ ret' = [op |-> "list", by |-> p, keys |-> keys[p], from |-> t0[p], at |-> now]
    /\ pc' = [pc EXCEPT ![p] = "idle"]
    /\ seen' = [seen EXCEPT ![p] = {}]
    /\ keys' = [keys EXCEPT ![p] = {}]
    /\ t0' = [t0 EXCEPT ![p] = 0]
    /\ UNCHANGED <<storeVars, now, writer, key, eid, gcVars, stopGC, panicked,
                   gLast, last, log>>
    /\ lin' = LinReturn(ret')
    /\ UNCHANGED main

\* ------------------------------------------------------------- sweeper

\* gcLoop: case <-ticker.C: s.sweep(), whose first statement reads the clock.
SweepStart ==
    /\ Running
    /\ gcPc = "wait"
    /\ sweepNow' = now
    /\ gcPc' = "sweep_called"
    /\ UNCHANGED <<storeVars, now, lockVars, pc, key, eid, seen, keys, stopGC,
                   panicked, histVars>>
    /\ ret' = NoRet
    /\ UNCHANGED <<main, lin>>

\* s.mu.Lock()
SweepLock ==
    /\ Running
    /\ gcPc = "sweep_called"
    /\ CanLock
    /\ writer' = GC
    /\ gcPc' = "sweep_locked"
    /\ t0' = [t0 EXCEPT ![GC] = now]
    /\ UNCHANGED <<storeVars, now, readers, pc, key, eid, seen, keys, sweepNow,
                   stopGC, panicked, gLast, last, log>>
    /\ ret' = NoRet
    /\ UNCHANGED <<main, lin>>

\* The range loop under the lock, and the deferred Unlock.
SweepBody ==
    /\ Running
    /\ gcPc = "sweep_locked"
    /\ data' = [k \in Keys |->
                  IF data[k] # 0 /\ sweepExpired(heap[data[k]], sweepNow)
                  THEN 0 ELSE data[k]]
    /\ writer' = None
    /\ gcPc' = "wait"
    /\ sweepNow' = 0
    /\ t0' = [t0 EXCEPT ![GC] = 0]
    /\ UNCHANGED <<heap, nextId, now, readers, pc, key, eid, seen, keys,
                   stopGC, panicked, gLast, last, log>>
    /\ ret' = [op |-> "sweep", tick |-> sweepNow, from |-> t0[GC], at |-> now,
               removed |-> {k \in Keys : data[k] # 0 /\ data'[k] = 0}]
    /\ UNCHANGED <<main, lin>>

\* gcLoop returning from its select without stopGC being closed.
GcStopUnasked ==
    /\ Running
    /\ gcPc = "wait"
    /\ gcPc' = "stopped"
    /\ UNCHANGED <<storeVars, now, lockVars, pc, key, eid, seen, keys, sweepNow,
                   stopGC, panicked, histVars>>
    /\ ret' = NoRet
    /\ UNCHANGED <<main, lin>>

\* gcLoop: case <-s.stopGC: return
GcStop ==
    /\ Running
    /\ gcPc = "wait"
    /\ stopGC = "closed"
    /\ gcPc' = "stopped"
    /\ UNCHANGED <<storeVars, now, lockVars, pc, key, eid, seen, keys, sweepNow,
                   stopGC, panicked, histVars>>
    /\ ret' = NoRet
    /\ UNCHANGED <<main, lin>>

\* ------------------------------------------------------------- Stop

\* close(s.stopGC): closing a closed channel panics.
CloseStopGC ==
    IF stopGC = "open"
    THEN stopGC' = "closed" /\ UNCHANGED panicked
    ELSE panicked' = TRUE /\ UNCHANGED stopGC

\* Store.Stop, called by the owner of the store.
Stop ==
    /\ Running
    /\ CloseStopGC
    /\ ret' = NoRet
    /\ UNCHANGED <<storeVars, now, lockVars, pc, key, eid, seen, keys, gcVars,
                   histVars, main, lin>>

\* ------------------------------------------------------------- main

\* What no step of main or of the servers changes.
mainFrame == <<storeVars, now, lockVars, pc, key, eid, seen, keys, gcVars,
               histVars, lin>>

\* log.Fatalf: the message, then os.Exit(1); deferred calls do not run.
Fatalf == main' = [main EXCEPT !.exit = "fatal"]

\* flag.Parse()
MainFlags(dh, dg) ==
    /\ Running
    /\ main.pc = "flags"
    /\ main' = [main EXCEPT !.pc = "http", !.disableHttp = dh, !.disablegRPC = dg]
    /\ ret' = NoRet
    /\ UNCHANGED <<mainFrame, stopGC, panicked>>

\* if !*disableHttp { go func() { ... httpSrv.ListenAndServe() ... }() }
MainStartHTTP ==
    /\ Running
    /\ main.pc = "http"
    /\ main' = [main EXCEPT !.pc = "grpc",
                            !.http = IF main.disableHttp THEN "off" ELSE "starting"]
    /\ ret' = NoRet
    /\ UNCHANGED <<mainFrame, stopGC, panicked>>

\* The HTTP goroutine: ListenAndServe has bound the port and serves.
HttpServe ==
    /\ Running
    /\ main.http = "starting"
    /\ main' = [main EXCEPT !.http = "serving"]
    /\ ret' = NoRet
    /\ UNCHANGED <<mainFrame, stopGC, panicked>>

\* The HTTP goroutine: ListenAndServe returns an error that is not
\* http.ErrServerClosed (the port is taken, the listener fails): log.Fatalf.
HttpError ==
    /\ Running
    /\ main.http \in {"starting", "serving"}
    /\ Fatalf
    /\ ret' = NoRet
    /\ UNCHANGED <<mainFrame, stopGC, panicked>>

\* The HTTP goroutine: after Shutdown ListenAndServe returns
\* http.ErrServerClosed, and the goroutine ends.
HttpClosed ==
    /\ Running
    /\ main.http = "closing"
    /\ main' = [main EXCEPT !.http = "off"]
    /\ ret' = NoRet
    /\ UNCHANGED <<mainFrame, stopGC, panicked>>

\* if !*disablegRPC { lis, err := net.Listen(...); go func() { grpcSrv.Serve(lis) }() }
MainListenGRPC ==
    /\ Running
    /\ main.pc = "grpc"
    /\ main' = [main EXCEPT !.pc = "check",
                            !.grpc = IF main.disablegRPC THEN "off" ELSE "serving"]
    /\ ret' = NoRet
    /\ UNCHANGED <<mainFrame, stopGC, panicked>>

\* net.Listen fails: log.Fatalf("failed to listen ...").
MainListenFail ==
    /\ Running
    /\ main.pc = "grpc"
    /\ ~main.disablegRPC
    /\ Fatalf
    /\ ret' = NoRet
    /\ UNCHANGED <<mainFrame, stopGC, panicked>>

\* The gRPC goroutine: Serve returns an error: log.Fatalf.
GrpcError ==
    /\ Running
    /\ main.grpc = "serving"
    /\ Fatalf
    /\ ret' = NoRet
    /\ UNCHANGED <<mainFrame, stopGC, panicked>>

\* if *disableHttp && *disablegRPC { log.Fatalf("All servers disabled! ...") }
MainCheck ==
    /\ Running
    /\ main.pc = "check"
    /\ IF main.disableHttp /\ main.disablegRPC
       THEN Fatalf
       ELSE main' = [main EXCEPT !.pc = "signal"]
    /\ ret' = NoRet
    /\ UNCHANGED <<mainFrame, stopGC, panicked>>

\* <-sigCh: SIGINT or SIGTERM arrives.
MainSignal ==
    /\ Running
    /\ main.pc = "signal"
    /\ main' = [main EXCEPT !.pc = "shutdown"]
    /\ ret' = NoRet
    /\ UNCHANGED <<mainFrame, stopGC, panicked>>

\* grpcSrv.GracefulStop() and httpSrv.Shutdown(...), each unless disabled.
MainShutdown ==
    /\ Running
    /\ main.pc = "shutdown"
    /\ main' = [main EXCEPT !.pc = "return",
                            !.grpc = IF main.disablegRPC THEN @ ELSE "stopped",
                            !.http = IF main.disableHttp THEN @ ELSE "closing"]
    /\ ret' = NoRet
    /\ UNCHANGED <<mainFrame, stopGC, panicked>>

\* main returns: the deferred s.Stop() runs.
MainDeferredStop ==
    /\ Running
    /\ main.pc = "return"
    /\ CloseStopGC
    /\ main' = [main EXCEPT !.pc = "exiting"]
    /\ ret' = NoRet
    /\ UNCHANGED mainFrame

\* The process exits with main's return.
MainExit ==
    /\ Running
    /\ main.pc = "exiting"
    /\ main' = [main EXCEPT !.exit = "return"]
    /\ ret' = NoRet
    /\ UNCHANGED <<mainFrame, stopGC, panicked>>

\* ------------------------------------------------------------- front ends
\* HTTP PUT /keys/{key} and gRPC Set.  ttl_seconds is an int64 and
\* time.Duration an int64 count of nanoseconds: both are modelled at their
\* width, as 8 bytes in two's complement, the least significant byte first.
\* One tick of the clock `now` is one second.

\* The number of bytes of an int64.
Int64Bytes == 8

RECURSIVE SumSeq(_)
SumSeq(s) == IF s = <<>> THEN 0 ELSE Head(s) + SumSeq(Tail(s))

\* The int64 of an integer n with -2^24 < n < 2^24.
Int64Of(n) ==
    [i \in 1..Int64Bytes |->
        IF i > 3
        THEN (IF n < 0 THEN 255 ELSE 0)
        ELSE IF n < 0 THEN 255 - (((-n - 1) \div (256 ^ (i - 1))) % 256)
                      ELSE (n \div (256 ^ (i - 1))) % 256]

Zero64 == Int64Of(0)
Negative64(x) == x[Int64Bytes] >= 128
Positive64(x) == ~Negative64(x) /\ x # Zero64

\* x <= y, for x and y not negative.
Leq64(x, y) ==
    \/ x = y
    \/ \E i \in 1..Int64Bytes :
          /\ x[i] < y[i]
          /\ \A j \in (i + 1)..Int64Bytes : x[j] = y[j]

\* The product of x and y (neither negative) in full, on twice the bytes:
\* long multiplication, column by column with its carry.
Column(x, y, k) ==
    SumSeq([i \in 1..Int64Bytes |->
               IF k - i + 1 \in 1..Int64Bytes THEN x[i] * y[k - i + 1] ELSE 0])

RECURSIVE CarryIn(_, _, _)
CarryIn(x, y, k) ==
    IF k = 1 THEN 0 ELSE (Column(x, y, k - 1) + CarryIn(x, y, k - 1)) \div 256

MulWide(x, y) ==
    [k \in 1..(2 * Int64Bytes) |-> (Column(x, y, k) + CarryIn(x, y, k)) % 256]

\* Go's x * y on int64: the low 64 bits of the product.
Mul64(x, y) == [k \in 1..Int64Bytes |-> MulWide(x, y)[k]]

\* time.Second: 1000000000 nanoseconds (0x3B9ACA00).
Second == <<0, 202, 154, 59, 0, 0, 0, 0>>

\* var ttl time.Duration; if req.TTLSeconds > 0 {
\*     ttl = time.Duration(req.TTLSeconds) * time.Second }
ttlOf(n) == IF Positive64(n) THEN Mul64(n, Second) ELSE Zero64

\* The whole seconds in the duration d > 0, up to MaxTime: what
\* time.Now().Add(d) adds to a clock that counts seconds and ends at MaxTime
\* (now + MaxTime is past the end of the clock, as every later time is).
WholeSeconds(d) ==
    CHOOSE t \in 0..MaxTime :
        /\ Leq64(Mul64(Int64Of(t), Second), d)
        /\ t < MaxTime => ~Leq64(Mul64(Int64Of(t + 1), Second), d)

\* Set's entry for a ttl given as a time.Duration d (store.go:88-91).
newEntryFor(value, d, t) ==
    [value |-> value,
     expiresAt |-> IF Positive64(d) THEN t + WholeSeconds(d) ELSE ZeroTime]

\* 2^e as an int64, for e in 0..62.
Pow2(e) == [i \in 1..Int64Bytes |-> IF i = (e \div 8) + 1 THEN 2 ^ (e % 8) ELSE 0]

\* The ttl_seconds of the requests: -1, 0 (also a request without the
\* field), the small ones, 9223372036 (0x225C17D04, the last n with
\* n * 10^9 < 2^63) and 9223372037, 2^37, 2^55, and the ends of the range.
TTLSeconds ==
    {Int64Of(n) : n \in -1..MaxTTL}
        \cup {<<4, 125, 193, 37, 2, 0, 0, 0>>, <<5, 125, 193, 37, 2, 0, 0, 0>>,
              Pow2(37), Pow2(55),
              <<255, 255, 255, 255, 255, 255, 255, 127>>,
              <<0, 0, 0, 0, 0, 0, 0, 128>>}

FrontEnds == {"http", "grpc"}

\* handleSet (HTTP) and Set (gRPC) up to the point where Store.Set has built
\* its entry: the request is decoded, ttl computed and Store.Set called with
\* it (store.go:88-91).  SetLock and SetStore are the rest of the call.
HandleSet(fe, p, k, v, n) ==
    /\ Running
    /\ pc[p] = "idle"
    /\ nextId < MaxSets
    /\ nextId' = nextId + 1
    /\ heap' = [heap EXCEPT ![nextId + 1] = newEntryFor(v, ttlOf(n), now)]
    /\ log' = [log EXCEPT ![nextId + 1] =
                  [key |-> k, value |-> v,
                   ttl |-> IF Positive64(ttlOf(n)) THEN WholeSeconds(ttlOf(n)) ELSE 0,
                   expiresAt |-> newEntryFor(v, ttlOf(n), now).expiresAt,
                   prev |-> last[k]]]
    /\ last' = [last EXCEPT ![k] = 0]
    /\ pc' = [pc EXCEPT ![p] = "set_called"]
    /\ key' = [key EXCEPT ![p] = k]
    /\ eid' = [eid EXCEPT ![p] = nextId + 1]
    /\ ret' = [op |-> "handleSet", by |-> p, fe |-> fe, key |-> k,
               ttlSeconds |-> n, ttl |-> ttlOf(n), e |-> nextId + 1, at |-> now]
    /\ UNCHANGED <<data, now, lockVars, seen, keys, gcVars, stopGC, panicked, gLast, t0>>
    /\ lin' = LinCall(p, k, pc', eid')
    /\ UNCHANGED main

\* ------------------------------------------------------------- Spec
\* The store under two clients that call Get, Set, Delete and List on any
\* key, with the sweeper running.

Next ==
    \/ Tick
    \/ \E p \in Clients, k \in Keys, v \in Values, ttl \in TTLs : SetCall(p, k, v, ttl)
    \/ \E p \in Clients : SetLock(p)
    \/ \E p \in Clients : SetStore(p)
    \/ \E p \in Clients, k \in Keys : GetRLock(p, k)
    \/ \E p \in Clients : GetCheck(p)
    \/ \E p \in Clients : GetLock(p)
    \/ \E p \in Clients : GetDelete(p)
    \/ \E p \in Clients, k \in Keys : DeleteLock(p, k)
    \/ \E p \in Clients : DeleteBody(p)
    \/ \E p \in Clients : ListRLock(p)
    \/ \E p \in Clients, k \in Keys : ListVisit(p, k)
    \/ \E p \in Clients : ListReturn(p)
    \/ SweepStart
    \/ SweepLock
    \/ SweepBody

Spec == Init /\ [][Next]_vars

\* ------------------------------------------------------------- SpecKey
\* Get, Set and Delete by two clients on the one key LinKey, with the sweeper
\* running; lin follows the linearizations of the history.

InitKey == InitStore /\ main = NoMain /\ lin = LinInit

NextKey ==
    \/ Tick
    \/ \E p \in Clients, v \in Values, ttl \in TTLs : SetCall(p, LinKey, v, ttl)
    \/ \E p \in Clients : SetLock(p)
    \/ \E p \in Clients : SetStore(p)
    \/ \E p \in Clients : GetRLock(p, LinKey)
    \/ \E p \in Clients : GetCheck(p)
    \/ \E p \in Clients : GetLock(p)
    \/ \E p \in Clients : GetDelete(p)
    \/ \E p \in Clients : DeleteLock(p, LinKey)
    \/ \E p \in Clients : DeleteBody(p)
    \/ SweepStart
    \/ SweepLock
    \/ SweepBody

SpecKey == InitKey /\ [][NextKey]_vars

\* ------------------------------------------------------------- SpecStop
\* The life of the sweeper: the owner calls Stop, any number of times, while
\* one client uses the store.

Owner == "c1"

NextStop ==
    \/ Tick
    \/ \E v \in Values, ttl \in TTLs : SetCall(Owner, LinKey, v, ttl)
    \/ SetLock(Owner)
    \/ SetStore(Owner)
    \/ GetRLock(Owner, LinKey)
    \/ GetCheck(Owner)
    \/ GetLock(Owner)
    \/ GetDelete(Owner)
    \/ SweepStart
    \/ SweepLock
    \/ SweepBody
    \/ GcStop
    \/ Stop

SpecStop == Init /\ [][NextStop]_vars

\* SpecStop under the scheduling the Go runtime gives: a goroutine that holds
\* the lock runs on to its unlock, a goroutine blocked in Lock gets the lock,
\* and the select of gcLoop, which picks among its ready cases at random,
\* does not pass over the closed stopGC for ever (SF on GcStop).
FairStop ==
    /\ WF_vars(SetStore(Owner))
    /\ WF_vars(GetCheck(Owner))
    /\ WF_vars(GetDelete(Owner))
    /\ SF_vars(SweepLock)
    /\ WF_vars(SweepBody)
    /\ SF_vars(GcStop)

SpecStopLive == Init /\ [][NextStop]_vars /\ FairStop

\* ------------------------------------------------------------- SpecMain
\* func main, from the return of store.New() and the defer of s.Stop(), with
\* its two server goroutines and the sweeper.

InitMain ==
    /\ InitStore
    /\ main = [pc |-> "flags", disableHttp |-> FALSE, disablegRPC |-> FALSE,
               http |-> "off", grpc |-> "off", exit |-> "no"]
    /\ lin = {}

NextMain ==
    \/ \E dh \in BOOLEAN, dg \in BOOLEAN : MainFlags(dh, dg)
    \/ MainStartHTTP
    \/ HttpServe
    \/ HttpError
    \/ HttpClosed
    \/ MainListenGRPC
    \/ MainListenFail
    \/ GrpcError
    \/ MainCheck
    \/ MainSignal
    \/ MainShutdown
    \/ MainDeferredStop
    \/ MainExit
    \/ Tick
    \/ SweepStart
    \/ SweepLock
    \/ SweepBody
    \/ GcStop

SpecMain == InitMain /\ [][NextMain]_vars

\* ------------------------------------------------------------- SpecLive
\* The store at work with the sweeper running (Stop is not called), under
\* the scheduling the Go runtime gives:
\*   - the ticker fires again and again (WF on SweepStart);
\*   - a goroutine that holds the lock runs on to its unlock (WF on the steps
\*     taken under the lock);
\*   - a goroutine blocked in Lock gets the lock (SF on the Lock steps):
\*     sync.RWMutex keeps new readers out while a Lock call is blocked, and
\*     hands the lock to waiting writers in turn.
\* The lock of the model has no queue of waiters, so a single client reads
\* (Reader: Get, List, and Set too) while the other one only writes (Set,
\* Delete): the lock is then free again and again, and SF says what the
\* queue of sync.RWMutex does.  The values stored play no part in the
\* scheduling: every Set stores the same one.

Reader == "c1"

NextLive ==
    \/ Tick
    \/ \E p \in Clients, k \in Keys, ttl \in TTLs : SetCall(p, k, "v1", ttl)
    \/ \E p \in Clients : SetLock(p)
    \/ \E p \in Clients : SetStore(p)
    \/ \E k \in Keys : GetRLock(Reader, k)
    \/ GetCheck(Reader)
    \/ GetLock(Reader)
    \/ GetDelete(Reader)
    \/ \E p \in Clients \ {Reader}, k \in Keys : DeleteLock(p, k)
    \/ \E p \in Clients \ {Reader} : DeleteBody(p)
    \/ ListRLock(Reader)
    \/ \E k \in Keys : ListVisit(Reader, k)
    \/ ListReturn(Reader)
    \/ SweepStart
    \/ SweepLock
    \/ SweepBody

FairLive ==
    /\ WF_vars(SweepStart)
    /\ SF_vars(SweepLock)
    /\ WF_vars(SweepBody)
    /\ \A p \in Clients :
          /\ SF_vars(SetLock(p))
          /\ WF_vars(SetStore(p))
          /\ WF_vars(DeleteBody(p))
    /\ WF_vars(GetCheck(Reader))
    /\ SF_vars(GetLock(Reader))
    /\ WF_vars(GetDelete(Reader))
    /\ WF_vars(\E k \in Keys : ListVisit(Reader, k))
    /\ WF_vars(ListReturn(Reader))

SpecLive == Init /\ [][NextLive]_vars /\ FairLive

\* ------------------------------------------------------------- SpecFront
\* One client that sets a key through the front ends and gets it back, with
\* the sweeper running.

NextFront ==
    \/ Tick
    \/ \E fe \in FrontEnds, v \in Values, n \in TTLSeconds :
           HandleSet(fe, Owner, LinKey, v, n)
    \/ SetLock(Owner)
    \/ SetStore(Owner)
    \/ GetRLock(Owner, LinKey)
    \/ GetCheck(Owner)
    \/ GetLock(Owner)
    \/ GetDelete(Owner)
    \/ SweepStart
    \/ SweepLock
    \/ SweepBody

SpecFront == Init /\ [][NextFront]_vars

\* ------------------------------------------------------------- claims

\* A Get has just returned that was called after a Set returned, with no Set
\* or Delete on the key called in between or in flight (see GetRes).
AfterSet == ret.op = "get" /\ ret.last \in Ids

\* An entry with expiresAt set is past it strictly after expiresAt ...
Past(e, t) == e.expiresAt # ZeroTime /\ t > e.expiresAt
\* ... or from the instant expiresAt on.
AtOrPast(e, t) == e.expiresAt # ZeroTime /\ t >= e.expiresAt

\* C1: after Set(key, value, 0) has returned, every later Get(key) returns
\* (value, true) until a Delete(key) or another Set(key, ...) is called,
\* whatever Get calls run concurrently and whatever the key held before.
C1_GetAfterSetNoTTL ==
    (AfterSet /\ log[ret.last].ttl = 0)
        => (ret.found /\ ret.value = log[ret.last].value)

\* C2: with ttl > 0, a Get(key) right after Set(key, value, ttl) (no clock
\* tick and no other Set or Delete since the Set read the clock) returns
\* (value, true), and a Get(key) that reads the clock more than ttl after the
\* Set, with no Set on the key in between, returns ("", false).
C2_GetWithinAndAfterTTL ==
    (AfterSet /\ log[ret.last].ttl > 0)
        => /\ ret.at = log[ret.last].expiresAt - log[ret.last].ttl
                => (ret.found /\ ret.value = log[ret.last].value)
           /\ ret.at > log[ret.last].expiresAt
                => (~ret.found /\ ret.value = "")

\* The four places that decide whether an entry is expired, each in the step
\* that decides, agree with the predicate P of the entry and the clock value
\* the step reads: Get (the lazy-expiry branch is taken), Delete (false is
\* returned for a key that is there), List (the key is left out) and the sweep
\* (the key is removed).
ExpiryDecisions(P(_, _)) ==
    /\ \A p \in Clients :
           (pc[p] = "get_rlocked" /\ pc'[p] # "get_rlocked" /\ data[key[p]] # 0)
               => ((pc'[p] = "get_upgrade") <=> P(heap[data[key[p]]], now))
    /\ \A p \in Clients :
           (pc[p] = "del_locked" /\ pc'[p] # "del_locked" /\ data[key[p]] # 0)
               => (ret'.deleted <=> ~P(heap[data[key[p]]], now))
    /\ \A p \in Clients, k \in Keys :
           (pc[p] = "list_rlocked" /\ k \notin seen[p] /\ k \in seen'[p])
               => ((k \in keys'[p]) <=> ~P(heap[data[k]], now))
    /\ (gcPc = "sweep_locked" /\ gcPc' # "sweep_locked")
           => \A k \in Keys :
                  data[k] # 0 => ((data'[k] = 0) <=> P(heap[data[k]], sweepNow))

\* C3 (as claimed): an entry whose expiresAt is set is expired exactly when
\* now >= expiresAt, and Get, Delete, List and the sweep all decide so.
C3_ExpiredAtOrAfter == [][ExpiryDecisions(AtOrPast)]_vars

\* C3 (amended): an entry whose expiresAt is set is expired exactly when
\* now > expiresAt (at the instant now = expiresAt it is still live), and
\* Get, Delete, List and the sweep all decide so.
C3_ExpiredStrictlyAfter == [][ExpiryDecisions(Past)]_vars

\* C3's case: a Get has just returned found for an entry at the very instant
\* of its expiresAt.
C3_Witness == ret.op = "get" /\ ret.found /\ ret.exp # ZeroTime /\ ret.at = ret.exp

\* C4: Delete(key) returns true exactly when, under the lock, the key is in
\* the map with an entry that is not expired; whatever it returns the key is
\* absent when it returns, and a Get(key) called after it, with no Set on the
\* key in between, returns found = false.
C4_Delete ==
    /\ ret.op = "delete"
          => /\ ret.deleted <=> (ret.was # 0 /\ ~Past(heap[ret.was], ret.at))
             /\ data[ret.key] = 0
    /\ (ret.op = "get" /\ ret.last = Deleted) => ~ret.found

\* C4's case: a Delete has just returned false for a key that was in the map
\* with an expired entry, and removed it.
C4_Witness == ret.op = "delete" /\ ~ret.deleted /\ ret.was # 0

\* C5: the result of List() is the set of keys present and not expired at one
\* single instant t between its call and its return.
C5_ListSnapshot ==
    ret.op = "list"
        => \E t \in ret.from .. ret.at :
               ret.keys = {k \in Keys : data[k] # 0 /\ ~Past(heap[data[k]], t)}

\* C6: no call of Stop panics, the first or any later one.
C6_StopNeverPanics == ~panicked

\* C7: when Set(key, v1, ttl1) and then Set(key, v2, ttl2) have returned in
\* that order, a later Get(key) reflects the second Set only: (v2, true) while
\* the second entry is not expired, not found once it is.
C7_SecondSetWins ==
    (AfterSet /\ log[ret.last].prev \in Ids)
        => IF Past(log[ret.last], ret.at)
           THEN ~ret.found
           ELSE ret.found /\ ret.value = log[ret.last].value

\* C8: the results of the Get, Set and Delete calls on one key agree with
\* some order of the calls in which each takes effect at one instant between
\* its call and its return (some linearization of the history is left).
C8_Linearizable == lin # {}

\* C9: a Get (as every reader) decides on one whole entry: the value it
\* returns and the expiration it tested are those of one Set call on the key,
\* and every entry in the map is the entry of one Set call on its key.
C9_WholeEntry ==
    /\ (ret.op = "get" /\ ret.found)
          => \E i \in 1..nextId :
                 /\ log[i].key = ret.key
                 /\ log[i].value = ret.value
                 /\ log[i].expiresAt = ret.exp
    /\ \A k \in Keys :
           data[k] # 0
              => \E i \in 1..nextId :
                     /\ log[i].key = k
                     /\ log[i].value = heap[data[k]].value
                     /\ log[i].expiresAt = heap[data[k]].expiresAt

\* C9's case: a Get has just returned the entry of a key while a Set that
\* overwrites the key is in flight.
C9_Witness ==
    /\ ret.op = "get" /\ ret.found
    /\ \E q \in Clients : pc[q] = "set_called" /\ key[q] = ret.key

\* C10: on every path by which the process exits, Store.Stop has been called.
C10_StopBeforeExit == main.exit # "no" => stopGC = "closed"

\* The key has been the target of a Set: some Set call on it has been made.
EverSet(k) == \E i \in 1..nextId : log[i].key = k

\* C11: a key that has never been the target of a Set is not in the map, and a
\* Get of it returns found = false, whatever has run on the other keys.
C11_NeverSetNotFound ==
    \A k \in Keys :
        ~EverSet(k) => /\ data[k] = 0
                       /\ (ret.op = "get" /\ ret.key = k) => ~ret.found

\* C11's case: a Get of a key never Set has just returned while another key
\* is in the map.
C11_Witness ==
    /\ ret.op = "get" /\ ~EverSet(ret.key)
    /\ \E k \in Keys : data[k] # 0

\* C12: the removal on Get's lazy-expiry path removes only an expired entry:
\* when Get holds the write lock and is about to delete the key, the entry
\* the key holds (if any) is expired; an unexpired entry that a Set stored
\* after Get released its read lock is not removed.
C12_LazyRemovalOnlyExpired ==
    \A p \in Clients :
        (pc[p] = "get_locked" /\ data[key[p]] # 0)
            => Past(heap[data[key[p]]], now)

\* The callers that are in a section of code entered by Lock and left by
\* Unlock, and those in one entered by RLock and left by RUnlock.
WriteHolders ==
    {p \in Clients : pc[p] \in {"set_locked", "get_locked", "del_locked"}}
        \cup (IF gcPc = "sweep_locked" THEN {GC} ELSE {})
ReadHolders == {p \in Clients : pc[p] \in {"get_rlocked", "list_rlocked"}}

\* Every caller at a place where the code reads the map or an entry holds the
\* lock in the mode the code took it in, and a writer holds it alone.
LockInv ==
    /\ readers = ReadHolders
    /\ writer = None <=> WriteHolders = {}
    /\ writer # None => WriteHolders = {writer}
    /\ WriteHolders # {} => ReadHolders = {}

\* A step that changes the map is the step of a caller that holds the write
\* lock, and that releases it.
MutationUnderLock ==
    data' # data => \E w \in WriteHolders : w = writer /\ writer' = None

\* C13: reads of the map and of entries happen under the lock in read or write
\* mode, mutations of the map (Set, Delete, sweep, Get's lazy expiry) happen
\* under the lock in write mode, and a writer never holds the lock together
\* with a reader or another writer.
C13_LockDiscipline == []LockInv /\ [][MutationUnderLock]_vars

\* C13's case: a caller holds the write lock while a Set, a Get on its
\* lazy-expiry path and the sweep cannot all go on: two of them wait for it.
C13_Witness ==
    /\ writer # None
    /\ Cardinality({p \in Clients : pc[p] \in {"set_called", "get_upgrade"}}
                     \cup (IF gcPc = "sweep_called" THEN {GC} ELSE {})) = 2

\* C14: when a sweep releases the lock, the map holds no entry that was
\* expired at the moment the sweep acquired the lock.
C14_SweepRemovesAllExpired ==
    ret.op = "sweep"
        => \A k \in Keys : data[k] # 0 => ~Past(heap[data[k]], ret.from)

\* Entry i is in the map.
InMap(i) == \E k \in Keys : data[k] = i

\* C15: with the sweeper running, an entry that is expired does not stay in
\* the map: it is eventually removed, whether or not a Get, Delete or List
\* touches its key and whatever the request traffic, and it is gone by the
\* time a sweep whose tick came after its expiration completes.
C15_ExpiredEventuallySwept ==
    /\ [](ret.op = "sweep"
            => \A k \in Keys : data[k] # 0 => ~Past(heap[data[k]], ret.tick))
    /\ \A i \in Ids : (InMap(i) /\ Past(heap[i], now)) ~> ~InMap(i)

\* C15's case: a sweep has just completed and has removed an entry.
C15_Witness == ret.op = "sweep" /\ ret.removed # {}

\* The sweeper goroutine is in its loop (Running) or has returned (Stopped).
SweeperRunning == gcPc \in {"wait", "sweep_called", "sweep_locked"}
SweeperStopped == gcPc = "stopped"

\* C16: the sweeper goes from Running to Stopped and no further: it leaves
\* Running only when Stop has closed stopGC, after a Stop call it eventually
\* is Stopped (as long as the process lives), and once Stopped it stays
\* Stopped: it runs no sweep and does not return to Running.
C16_SweeperLifecycle ==
    /\ [](SweeperRunning \/ SweeperStopped)
    /\ [][SweeperRunning /\ ~SweeperRunning' => stopGC = "closed"]_vars
    /\ [][SweeperStopped => SweeperStopped']_vars
    /\ (stopGC = "closed") ~> (SweeperStopped \/ panicked)

\* C16's case: the store has been in use, Stop was called once, and the
\* sweeper has stopped.
C16_Witness == SweeperStopped /\ ~panicked /\ ret.op = "none" /\ nextId > 0

\* A sweep is under way: the sweeper is between the tick and sweep's return.
Sweeping == gcPc \in {"sweep_called", "sweep_locked"}

\* C17: once Stop has returned the sweeper is out of the way: no sweep is
\* under way then, and from then on no sweep starts, takes the lock or
\* changes the map.
C17_NoSweepAfterStop ==
    /\ [](stopGC = "closed" => ~Sweeping)
    /\ [][stopGC = "closed" => (gcPc' = gcPc \/ gcPc' = "stopped")]_vars

\* n seconds in nanoseconds computed in full, and a duration d on as many
\* bytes.
SecondsExact(n) == MulWide(n, Second)
Widen(d) == [k \in 1..(2 * Int64Bytes) |-> IF k <= Int64Bytes THEN d[k] ELSE 0]

\* C18: through either front end, for every int64 ttl_seconds: a value <= 0
\* (or none) stores an entry that never expires; a value n > 0 calls
\* Store.Set with a positive ttl of exactly n seconds (the multiplication does
\* not wrap to zero, to a negative or to a shorter duration), and the entry
\* gets expiresAt = now + n seconds.
C18_TTLSecondsConversion ==
    ret.op = "handleSet" =>
        IF Positive64(ret.ttlSeconds)
        THEN /\ Positive64(ret.ttl)
             /\ Widen(ret.ttl) = SecondsExact(ret.ttlSeconds)
             /\ heap[ret.e].expiresAt # ZeroTime
             /\ \A t \in 1..MaxTime :
                    ret.ttlSeconds = Int64Of(t) => heap[ret.e].expiresAt = ret.at + t
        ELSE ret.ttl = Zero64 /\ heap[ret.e].expiresAt = ZeroTime

\* A caller that is in no call holds no lock, and the lock is held by callers
\* that are in a call only.
NoLockHeldOutsideCalls ==
    /\ \A p \in Clients : pc[p] = "idle" => (p \notin readers /\ writer # p)
    /\ ~Sweeping => writer # GC
    /\ readers \subseteq Clients
    /\ writer \in Clients \cup {GC, None}

\* Some step of a call can be taken: a call can start, or one under way can
\* go on.
CanProceed ==
    \/ \E p \in Clients, k \in Keys : ENABLED GetRLock(p, k)
    \/ \E p \in Clients : ENABLED GetCheck(p) \/ ENABLED GetLock(p) \/ ENABLED GetDelete(p)
    \/ \E p \in Clients : ENABLED SetLock(p) \/ ENABLED SetStore(p)
    \/ \E p \in Clients : ENABLED DeleteBody(p) \/ ENABLED ListReturn(p)
    \/ \E p \in Clients, k \in Keys : ENABLED ListVisit(p, k)
    \/ ENABLED SweepLock \/ ENABLED SweepBody

\* C19: every Get, Set, Delete, List and sweep call returns, and holds no
\* lock when it has: a caller outside a call holds no lock, no state is a
\* deadlock, and under fair scheduling of the lock every call that has
\* started returns.
C19_CallsReturnUnlocked ==
    /\ []NoLockHeldOutsideCalls
    /\ []CanProceed
    /\ \A p \in Clients : (pc[p] # "idle") ~> (pc[p] = "idle")
    /\ Sweeping ~> ~Sweeping

\* C19's case: a Get has just returned by its lazy-expiry path, the one that
\* takes the lock twice, and the lock is free.
C19_Witness ==
    /\ ret.op = "get" /\ ~ret.found /\ ret.exp # ZeroTime
    /\ readers = {} /\ writer = None

\* Client p takes the step, and the key of its call.
ActsOn(p) == pc'[p] # pc[p] \/ seen'[p] # seen[p]
KeyOf(p) == IF pc[p] = "idle" THEN key'[p] ELSE key[p]
InList(p) == pc[p] = "list_rlocked" \/ pc'[p] = "list_rlocked"

\* What a step leaves alone.  The map holds pointers and the entries are in
\* the heap: a key whose pointer and whose entry are unchanged has kept its
\* presence, its value and its expiration.
Frame ==
    /\ \A p \in Clients :
          ActsOn(p) =>
              IF InList(p)
              THEN data' = data
              ELSE \A k \in Keys \ {KeyOf(p)} : data'[k] = data[k]
    /\ gcPc' # gcPc =>
          \A k \in Keys :
              (data[k] # 0 /\ ~Past(heap[data[k]], now)) => data'[k] = data[k]
    /\ ((\A p \in Clients : ~ActsOn(p)) /\ gcPc' = gcPc) => data' = data
    /\ \A i \in 1..nextId : heap'[i] = heap[i]

\* C20: Get, Set and Delete on a key leave every other key as it is, List
\* changes nothing, a sweep leaves every entry that is not expired (the ones
\* that never expire among them) in place, and the value and expiresAt of an
\* entry never change after the Set that made it.
C20_Frame == [][Frame]_vars

\* C20's case: a sweep has just removed an expired entry and has left another
\* key in the map.
C20_Witness ==
    /\ ret.op = "sweep" /\ ret.removed # {}
    /\ \E k \in Keys : data[k] # 0

=============================================================================
